---- MODULE Spec2Model ----
(***************************************************************************)
(* Model of src/main.py: the table-model adapter PandasModel, the logging  *)
(* mixin LogMixin with the log_action decorator, and the window DataApp.   *)
(*                                                                         *)
(* Two specifications:                                                     *)
(*   Spec     PandasModel alone: adapters are constructed over snapshot    *)
(*            objects and queried with arbitrary indices, roles and axes.  *)
(*   AppSpec  DataApp: the five init_* steps of __init__ in order, then    *)
(*            any decorated method called any number of times, and the     *)
(*            table view querying the adapter it shows.                    *)
(*                                                                         *)
(* The source's Cyrillic string literals are written in Latin letters,     *)
(* one literal per definition, each next to the line it stands for.        *)
(***************************************************************************)
EXTENDS Integers, Sequences, FiniteSets, TLC

\* ------------------------------------------------------------------ bounds
\* Adapters that may exist at once in Spec.
MaxModels == 2
\* Largest row, column or section number a query is made with.
MaxIdx == 2
\* Decorated DataApp methods called after __init__ has returned.
MaxCalls == 2

\* ----------------------------------------------------------- Python values
None == [t |-> "None"]
PyInt(n) == [t |-> "int", v |-> n]
\* A float is held in hundredths: PyFloat(350) is 3.5.
PyFloat(h) == [t |-> "float", h |-> h]
NaN == [t |-> "nan"]
PyStr(s) == [t |-> "str", s |-> s]
\* The call did not return: it raised the exception exc.
Raise(e) == [t |-> "raise", exc |-> e]

Digit(d) == <<"0", "1", "2", "3", "4", "5", "6", "7", "8", "9">>[d + 1]

RECURSIVE Dec(_)
Dec(n) == IF n < 10 THEN Digit(n) ELSE Dec(n \div 10) \o Digit(n % 10)

Abs(n) == IF n < 0 THEN -n ELSE n

\* str(value) of a scalar read from a frame: an integer prints its digits, a
\* float prints the shortest decimal that reads back (always with a fractional
\* part; the floats here have two decimals and stay far below 1e16, where the
\* exponent form begins), a missing float prints nan, text prints itself.
str(value) ==
  CASE value.t = "int" ->
         (IF value.v < 0 THEN "-" ELSE "") \o Dec(Abs(value.v))
    [] value.t = "float" ->
         LET ip == Abs(value.h) \div 100
             fp == Abs(value.h) % 100
         IN (IF value.h < 0 THEN "-" ELSE "") \o Dec(ip) \o "." \o
            (IF fp % 10 = 0 THEN Digit(fp \div 10)
                            ELSE Digit(fp \div 10) \o Digit(fp % 10))
    [] value.t = "nan" -> "nan"
    [] value.t = "str" -> value.s

\* ------------------------------------------------------------- data frames
\* A pandas DataFrame, column-major: column labels, row labels, and one
\* sequence of values per column.
DataFrame(columns, index, cols) ==
  [t |-> "DataFrame", columns |-> columns, index |-> index, cols |-> cols]

\* RangeIndex(n): the positional row labels 0 .. n-1.
RangeIndex(n) == IF n = 0 THEN <<>> ELSE [i \in 1..n |-> PyInt(i - 1)]

\* pd.DataFrame(): no rows, no columns.
EmptyFrame == DataFrame(<<>>, <<>>, <<>>)

\* columns ["a","b"], rows [[1,2],[3,4]].
ExampleFrame ==
  DataFrame(<<PyStr("a"), PyStr("b")>>, RangeIndex(2),
            << <<PyInt(1), PyInt(3)>>, <<PyInt(2), PyInt(4)>> >>)

\* Two labelled rows, an integer and a float column with a missing value.
LabeledFrame ==
  DataFrame(<<PyStr("delta"), PyStr("accel")>>,
            <<PyStr("r1"), PyStr("r2")>>,
            << <<PyInt(-12), PyInt(100)>>, <<PyFloat(350), NaN>> >>)

\* pd.DataFrame([["x", -0.05]]): positional column and row labels.
UnnamedFrame ==
  DataFrame(RangeIndex(2), RangeIndex(1),
            << <<PyStr("x")>>, <<PyFloat(-5)>> >>)

\* A header without rows, as read from a file holding only the header line.
HeaderOnlyFrame ==
  DataFrame(<<PyStr("a"), PyStr("b")>>, <<>>, << <<>>, <<>> >>)

\* {"a": [1, 2], "b": [3]}: columns of unequal length. pandas refuses to
\* build a DataFrame from it, so it reaches the adapter as the plain mapping.
RaggedDict ==
  [t |-> "dict", columns |-> <<PyStr("a"), PyStr("b")>>, index |-> <<>>,
   cols |-> << <<PyInt(1), PyInt(2)>>, <<PyInt(3)>> >>]

\* The snapshot objects of Spec. Object 1 is the DataFrame that the default
\* argument of PandasModel.__init__ evaluated to when the class was defined.
DefaultDf == 1
Snapshots ==
  <<EmptyFrame, ExampleFrame, LabeledFrame, UnnamedFrame, HeaderOnlyFrame,
    RaggedDict>>

\* df.shape
shape(df) ==
  IF df.t = "DataFrame"
  THEN [t |-> "tuple", v |-> <<Len(df.index), Len(df.columns)>>]
  ELSE Raise("AttributeError")

\* labels[i] of a pandas Index: a negative i counts from the end, and an i
\* outside -n .. n-1 raises IndexError.
getitem(labels, i) ==
  LET n == Len(labels)
  IN IF i >= n \/ i < -n THEN Raise("IndexError")
     ELSE labels[(IF i < 0 THEN i + n ELSE i) + 1]

\* iloc with the two positions taken in the wrong order: df.iloc[c, r].
iloc_transposed(df, r, c) ==
  IF df.t # "DataFrame" THEN Raise("AttributeError")
  ELSE LET n == Len(df.index)
           k == Len(df.columns)
       IN IF c >= n \/ c < -n \/ r >= k \/ r < -k THEN Raise("IndexError")
          ELSE df.cols[(IF r < 0 THEN r + k ELSE r) + 1]
                      [(IF c < 0 THEN c + n ELSE c) + 1]

\* df.iloc[r, c]
iloc(df, r, c) ==
  IF df.t # "DataFrame" THEN Raise("AttributeError")
  ELSE LET n == Len(df.index)
           k == Len(df.columns)
       IN IF r >= n \/ r < -n \/ c >= k \/ c < -k THEN Raise("IndexError")
          ELSE df.cols[(IF c < 0 THEN c + k ELSE c) + 1]
                      [(IF r < 0 THEN r + n ELSE r) + 1]

\* ------------------------------------------------------------ Qt values
DisplayRole == "DisplayRole"
Roles == {DisplayRole, "EditRole"}
Horizontal == "Horizontal"
Vertical == "Vertical"
\* headerData is a Python method: any object can be passed as orientation.
Orientations == {Horizontal, Vertical, "Diagonal"}

\* QModelIndex(): row -1, column -1, no model.
InvalidIndex == [row |-> -1, column |-> -1, model |-> 0]
\* owner.createIndex(r, c): the index keeps whatever r and c it is given.
createIndex(owner, r, c) == [row |-> r, column |-> c, model |-> owner]
\* QModelIndex.isValid()
isValid(index) == index.row >= 0 /\ index.column >= 0 /\ index.model # 0

\* ---------------------------------------------------------------- state
VARIABLES
  frames,       \* the snapshot objects: frames[f] is the content of object f
  models,       \* the PandasModel objects: models[m].df is the object m holds
  ret,          \* what the last call returned or raised
  call,         \* the last call and its arguments
  pc,           \* where DataApp.__init__ stands; "ready" once it has returned
  data_tables,  \* DataApp.data_tables: table name -> DataFrame
  tabs,         \* the titles of the tabs of DataApp.tabs, in order
  stat_table_select,       \* the items of the table combo box
  lineplot_column_select,  \* the items of the column combo box
  stat_model,   \* DataApp.stat_model: a PandasModel object, 0 before it is set
  stat_table,   \* the PandasModel object the table view shows, 0 without a view
  canvas,       \* per chart: the title on its figure and the title last drawn
  log_widget,   \* LogMixin.log_widget: a text widget, 0 for None
  logs,         \* logs[w]: the lines of text widget w
  calls         \* every decorated call so far, with the widget attached then

appVars ==
  <<pc, data_tables, tabs, stat_table_select, lineplot_column_select,
    stat_model, stat_table, canvas, log_widget, logs, calls>>
vars == <<frames, models, ret, call, appVars>>

\* ---------------------------------------------------------- PandasModel
\* What a method call leaves behind: its result, the snapshot objects and the
\* adapter after it.
Out(r, F, self) == [ret |-> r, frames |-> F, self |-> self]

\* PandasModel.__init__(self, df): keeps the reference, checks nothing.
PandasModel(df) == [ret |-> None, self |-> [df |-> df]]

rowCount(F, self) ==
  LET s == shape(F[self.df])
  IN Out(IF s.t = "raise" THEN s ELSE PyInt(s.v[1]), F, self)

columnCount(F, self) ==
  LET s == shape(F[self.df])
  IN Out(IF s.t = "raise" THEN s ELSE PyInt(s.v[2]), F, self)

\* data keeping the text it made in the frame, in place of the value.
data_caching(F, self, index, role) ==
  IF ~isValid(index) THEN Out(None, F, self)
  ELSE IF role = DisplayRole
       THEN LET value == iloc(F[self.df], index.row, index.column)
            IN IF value.t = "raise" THEN Out(value, F, self)
               ELSE Out(PyStr(str(value)),
                        [F EXCEPT ![self.df].cols[index.column + 1]
                                                 [index.row + 1] =
                                    PyStr(str(value))],
                        self)
       ELSE Out(None, F, self)

data(F, self, index, role) ==
  IF ~isValid(index) THEN Out(None, F, self)
  ELSE IF role = DisplayRole
       THEN LET value == iloc(F[self.df], index.row, index.column)
            IN Out(IF value.t = "raise" THEN value ELSE PyStr(str(value)),
                   F, self)
       ELSE Out(None, F, self)

\* headerData with the two axes taken for one another.
headerData_swapped(F, self, section, orientation, role) ==
  IF role = DisplayRole /\ orientation \in {Horizontal, Vertical}
  THEN LET label == IF F[self.df].t # "DataFrame"
                    THEN Raise("AttributeError")
                    ELSE IF orientation = Horizontal
                         THEN getitem(F[self.df].index, section)
                         ELSE getitem(F[self.df].columns, section)
       IN Out(IF label.t = "raise" THEN label ELSE PyStr(str(label)), F, self)
  ELSE Out(None, F, self)

headerData(F, self, section, orientation, role) ==
  IF role = DisplayRole
  THEN IF orientation = Horizontal
       THEN LET label == IF F[self.df].t = "DataFrame"
                         THEN getitem(F[self.df].columns, section)
                         ELSE Raise("AttributeError")
            IN Out(IF label.t = "raise" THEN label ELSE PyStr(str(label)),
                   F, self)
       ELSE IF orientation = Vertical
            THEN LET label == IF F[self.df].t = "DataFrame"
                              THEN getitem(F[self.df].index, section)
                              ELSE Raise("AttributeError")
                 IN Out(IF label.t = "raise" THEN label ELSE PyStr(str(label)),
                        F, self)
            ELSE Out(None, F, self)
  ELSE Out(None, F, self)

\* ------------------------------------------------------- actions of Spec
NoApp ==
  /\ pc = "none"
  /\ data_tables = <<>>
  /\ tabs = <<>>
  /\ stat_table_select = <<>>
  /\ lineplot_column_select = <<>>
  /\ stat_model = 0
  /\ stat_table = 0
  /\ canvas = <<>>
  /\ log_widget = 0
  /\ logs = <<>>
  /\ calls = <<>>

Init ==
  /\ frames = Snapshots
  /\ models = <<>>
  /\ ret = None
  /\ call = [op |-> "none"]
  /\ NoApp

\* PandasModel(df) with a snapshot object of the caller's.
Construct(f) ==
  /\ Len(models) < MaxModels
  /\ LET o == PandasModel(f)
     IN /\ models' = Append(models, o.self)
        /\ ret' = o.ret
  /\ call' = [op |-> "__init__", self |-> Len(models) + 1, df |-> f]
  /\ UNCHANGED <<frames, appVars>>

\* PandasModel(): df is the object the default argument names.
ConstructDefault ==
  /\ Len(models) < MaxModels
  /\ LET o == PandasModel(DefaultDf)
     IN /\ models' = Append(models, o.self)
        /\ ret' = o.ret
  /\ call' = [op |-> "__init__", self |-> Len(models) + 1, df |-> DefaultDf]
  /\ UNCHANGED <<frames, appVars>>

\* A query on adapter m took effect: o is what the method left behind.
Query(m, o, c) ==
  /\ frames' = o.frames
  /\ models' = [models EXCEPT ![m] = o.self]
  /\ ret' = o.ret
  /\ call' = c
  /\ UNCHANGED appVars

RowCount(m) ==
  Query(m, rowCount(frames, models[m]), [op |-> "rowCount", self |-> m])

ColumnCount(m) ==
  Query(m, columnCount(frames, models[m]), [op |-> "columnCount", self |-> m])

\* The indices adapter m can be asked with: QModelIndex(), or one made by its
\* createIndex, which takes any row and column.
Indices(m) ==
  {InvalidIndex} \cup
  {createIndex(m, r, c) : r \in -1..MaxIdx, c \in -1..MaxIdx}

Data(m, index, role) ==
  Query(m, data(frames, models[m], index, role),
        [op |-> "data", self |-> m, index |-> index, role |-> role])

Sections == (-MaxIdx - 1)..MaxIdx

HeaderData(m, section, orientation, role) ==
  Query(m, headerData(frames, models[m], section, orientation, role),
        [op |-> "headerData", self |-> m, section |-> section,
         orientation |-> orientation, role |-> role])

QueryOps == {"rowCount", "columnCount", "data", "headerData"}

Next ==
  \/ \E f \in DOMAIN frames : Construct(f)
  \/ ConstructDefault
  \/ \E m \in DOMAIN models : RowCount(m)
  \/ \E m \in DOMAIN models : ColumnCount(m)
  \/ \E m \in DOMAIN models, role \in Roles :
       \E index \in Indices(m) : Data(m, index, role)
  \/ \E m \in DOMAIN models, section \in Sections,
        orientation \in Orientations, role \in Roles :
       HeaderData(m, section, orientation, role)

Spec == Init /\ [][Next]_vars

\* ------------------------------------------------- statistics (pandas)
RECURSIVE Sum(_)
Sum(q) == IF q = <<>> THEN 0 ELSE Head(q) + Sum(Tail(q))

\* a / b rounded to the nearest integer, a half to the even neighbour; b > 0.
RoundHalfEven(a, b) ==
  LET fl == IF a >= 0 THEN a \div b ELSE -((-a + b - 1) \div b)
      r2 == 2 * (a - fl * b)
  IN IF r2 < b THEN fl
     ELSE IF r2 > b THEN fl + 1
     ELSE IF fl % 2 = 0 THEN fl ELSE fl + 1

\* The integer nearest to sqrt(num / den); num >= 0, den > 0, below bound.
SqrtDiv(num, den, bound) ==
  CHOOSE h \in 0..bound :
    /\ 4 * num < (2 * h + 1) * (2 * h + 1) * den
    /\ h = 0 \/ 4 * num >= (2 * h - 1) * (2 * h - 1) * den

\* The sum of (h[i] - h[j])^2 over the pairs i < j, which is
\* n * sum(h^2) - sum(h)^2.
SquaredDifferences(h) ==
  LET pairs == {p \in (DOMAIN h) \X (DOMAIN h) : p[1] < p[2]}
      RECURSIVE Over(_)
      Over(P) == IF P = {} THEN 0
                 ELSE LET p == CHOOSE x \in P : TRUE
                      IN (h[p[1]] - h[p[2]]) * (h[p[1]] - h[p[2]])
                         + Over(P \ {p})
  IN Over(pairs)

\* select_dtypes(include='number'): the columns read as integers or floats. A
\* column without a row is read from a file as text.
IsNumber(col) ==
  /\ col # <<>>
  /\ \A i \in DOMAIN col : col[i].t \in {"int", "float", "nan"}

NumberColumns(df) ==
  SelectSeq([i \in DOMAIN df.columns |-> i], LAMBDA i : IsNumber(df.cols[i]))

\* The values of a numeric column that are present, in hundredths, ascending.
Present(col) ==
  LET kept == SelectSeq(col, LAMBDA x : x.t # "nan")
      h == [i \in DOMAIN kept |->
              IF kept[i].t = "int" THEN 100 * kept[i].v ELSE kept[i].h]
  IN SortSeq(h, LAMBDA a, b : a < b)

\* The q-th percentile by linear interpolation between the two nearest ranks.
Quantile(h, q) ==
  LET pos == (Len(h) - 1) * q
      lo == pos \div 100 + 1
      fr == pos % 100
  IN IF fr = 0 THEN h[lo]
     ELSE RoundHalfEven(100 * h[lo] + (h[lo + 1] - h[lo]) * fr, 100)

StatNames ==
  <<PyStr("count"), PyStr("mean"), PyStr("std"), PyStr("min"), PyStr("25%"),
    PyStr("50%"), PyStr("75%"), PyStr("max")>>

\* One row of describe().transpose().round(2): the eight statistics of a
\* numeric column, each a float with two decimals.
Stats(col) ==
  LET h == Present(col)
      n == Len(h)
  IN IF n = 0
     THEN <<PyFloat(0), NaN, NaN, NaN, NaN, NaN, NaN, NaN>>
     ELSE <<PyFloat(100 * n),
            PyFloat(RoundHalfEven(Sum(h), n)),
            IF n = 1 THEN NaN
            ELSE PyFloat(SqrtDiv(SquaredDifferences(h), n * (n - 1),
                                 h[n] - h[1])),
            PyFloat(h[1]),
            PyFloat(Quantile(h, 25)),
            PyFloat(Quantile(h, 50)),
            PyFloat(Quantile(h, 75)),
            PyFloat(h[n])>>

\* df.select_dtypes(include='number').describe().transpose().round(2):
\* a row per numeric column, a column per statistic. describe() raises
\* ValueError for a frame without columns.
describe(df) ==
  LET num == NumberColumns(df)
  IN IF num = <<>> THEN Raise("ValueError")
     ELSE DataFrame(StatNames,
                    [i \in DOMAIN num |-> df.columns[num[i]]],
                    [j \in DOMAIN StatNames |->
                       [i \in DOMAIN num |-> Stats(df.cols[num[i]])[j]]])

\* ------------------------------------------------------------ LogMixin
\* "Действие: "
LogPrefix == "Deistvie: "

\* LogMixin.log on the text widgets W with log_widget attached (0 for None):
\* a widget object is true, None is false.
log(W, widget, message) ==
  IF widget # 0 THEN [W EXCEPT ![widget] = Append(@, message)] ELSE W

\* The first statement of log_action's wrapper, on the window s: the entry is
\* written before func runs. s.calls notes the call and the widget attached.
wrapper(s, name) ==
  [s EXCEPT !.logs = log(s.logs, s.log_widget, LogPrefix \o name),
            !.calls = Append(@, [name |-> name, widget |-> s.log_widget])]

\* --------------------------------------------------------------- DataApp
\* "Электромобили"
TableName == "Elektromobili"
\* "Ошибка", "Таблица не найдена"
ErrorColumn == "Oshibka"
NotFoundText == "Tablitsa ne naidena"
\* The tab titles "Статистика", "Корреляция", "Тепловая карта",
\* "Линейный график", "Лог".
StatTab == "Statistika"
CorrTab == "Korrelyatsiya"
HeatmapTab == "Teplovaya karta"
LineplotTab == "Lineinyi grafik"
LogTab == "Log"
\* The chart titles "Матрица корреляции", "Тепловая карта числовых данных",
\* "Линейный график по столбцу ".
CorrTitle == "Matritsa korrelyatsii"
HeatmapTitle == "Teplovaya karta chislovykh dannykh"
LineplotTitle == "Lineinyi grafik po stolbtsu "

\* The datasets the file may hold: two rows with a text and two integer
\* columns; three rows with one integer column; text only.
EVTable ==
  DataFrame(<<PyStr("brand"), PyStr("seats"), PyStr("doors")>>,
            RangeIndex(2),
            << <<PyStr("Tesla"), PyStr("Kia")>>,
               <<PyInt(5), PyInt(7)>>,
               <<PyInt(4), PyInt(5)>> >>)
SeatsTable ==
  DataFrame(<<PyStr("brand"), PyStr("seats")>>, RangeIndex(3),
            << <<PyStr("Tesla"), PyStr("Kia"), PyStr("BMW")>>,
               <<PyInt(5), PyInt(7), PyInt(4)>> >>)
TextOnlyTable ==
  DataFrame(<<PyStr("brand")>>, RangeIndex(2),
            << <<PyStr("Tesla"), PyStr("Kia")>> >>)
Tables == {EVTable, SeatsTable, TextOnlyTable}

\* The table names and column names the methods are called with.
TableNames == {TableName, "", "Gibridy"}
ColumnNames == {"seats", "brand", "price"}

\* A FigureCanvas over a new Figure: no axes, nothing drawn; and the
\* attribute before the canvas is made.
NewCanvas == [made |-> TRUE, axes |-> 0, title |-> "", drawn |-> ""]
NoCanvas == [made |-> FALSE, axes |-> 0, title |-> "", drawn |-> ""]

\* The window as the methods see it.
Window ==
  [frames |-> frames, models |-> models, data_tables |-> data_tables,
   tabs |-> tabs, stat_table_select |-> stat_table_select,
   lineplot_column_select |-> lineplot_column_select,
   stat_model |-> stat_model, stat_table |-> stat_table, canvas |-> canvas,
   log_widget |-> log_widget, logs |-> logs, calls |-> calls, exc |-> None]

\* QComboBox.currentText(): the first item, "" for an empty box.
currentText(items) == IF items = <<>> THEN "" ELSE items[1]

\* list(self.data_tables.keys())[0] and the table under it.
FirstTable(s) == s.data_tables[TableName]

\* get_statistics reading self.data_tables[table_name]: a missing key raises.
get_statistics_subscript(tables, table_name) ==
  IF table_name \in DOMAIN tables
  THEN describe(tables[table_name])
  ELSE Raise("KeyError")

get_statistics(tables, table_name) ==
  IF table_name \in DOMAIN tables
  THEN describe(tables[table_name])
  ELSE DataFrame(<<PyStr(ErrorColumn)>>, RangeIndex(1),
                 << <<PyStr(NotFoundText)>> >>)

\* The adapter made over a new statistics frame, as stat_model, shown by the
\* view when setModel is true.
WithStatModel(s, df_stat, setModel) ==
  LET f == Len(s.frames) + 1
      m == Len(s.models) + 1
  IN [s EXCEPT !.frames = Append(@, df_stat),
               !.models = Append(@, PandasModel(f).self),
               !.stat_model = m,
               !.stat_table = IF setModel THEN m ELSE @]

init_stat_tab(s0) ==
  LET s == wrapper(s0, "init_stat_tab")
      items == <<TableName>>
      df_stat == get_statistics(s.data_tables, currentText(items))
  IN IF df_stat.t = "raise"
     THEN [s EXCEPT !.stat_table_select = items, !.exc = df_stat]
     ELSE [WithStatModel(s, df_stat, TRUE) EXCEPT
             !.stat_table_select = items,
             !.tabs = Append(@, StatTab)]

\* update_stat that makes the new adapter and leaves the view on the old one.
update_stat_without_setModel(s0, table_name) ==
  LET s == wrapper(s0, "update_stat")
      df_stat == get_statistics(s.data_tables, table_name)
  IN IF df_stat.t = "raise" THEN [s EXCEPT !.exc = df_stat]
     ELSE WithStatModel(s, df_stat, FALSE)

update_stat(s0, table_name) ==
  LET s == wrapper(s0, "update_stat")
      df_stat == get_statistics(s.data_tables, table_name)
  IN IF df_stat.t = "raise" THEN [s EXCEPT !.exc = df_stat]
     ELSE WithStatModel(s, df_stat, TRUE)

plot_corr(s0) ==
  LET s == wrapper(s0, "plot_corr")
  IN [s EXCEPT !.canvas.corr =
                 [made |-> TRUE, axes |-> 1, title |-> CorrTitle,
                  drawn |-> CorrTitle]]

init_corr_tab(s0) ==
  LET s == wrapper(s0, "init_corr_tab")
  IN plot_corr([s EXCEPT !.canvas.corr = NewCanvas,
                         !.tabs = Append(@, CorrTab)])

plot_heatmap(s0) ==
  LET s == wrapper(s0, "plot_heatmap")
  IN [s EXCEPT !.canvas.heatmap =
                 [made |-> TRUE, axes |-> 1, title |-> HeatmapTitle,
                  drawn |-> HeatmapTitle]]

init_heatmap_tab(s0) ==
  LET s == wrapper(s0, "init_heatmap_tab")
  IN plot_heatmap([s EXCEPT !.canvas.heatmap = NewCanvas,
                            !.tabs = Append(@, HeatmapTab)])

\* df[column] raises KeyError for a name that is no column; by then the
\* figure is cleared and has its new, untitled axes, and nothing is redrawn.
plot_lineplot(s0, column) ==
  LET s == wrapper(s0, "plot_lineplot")
      df == FirstTable(s)
  IN IF \E i \in DOMAIN df.columns : df.columns[i] = PyStr(column)
     THEN [s EXCEPT !.canvas.lineplot =
                      [made |-> TRUE, axes |-> 1,
                       title |-> LineplotTitle \o column,
                       drawn |-> LineplotTitle \o column]]
     ELSE [s EXCEPT !.canvas.lineplot = [@ EXCEPT !.axes = 1, !.title = ""],
                    !.exc = Raise("KeyError")]

init_lineplot_tab(s0) ==
  LET s == wrapper(s0, "init_lineplot_tab")
      df == FirstTable(s)
      num == NumberColumns(df)
      num_cols == [i \in DOMAIN num |-> df.columns[num[i]].s]
  IN plot_lineplot([s EXCEPT !.lineplot_column_select = num_cols,
                             !.canvas.lineplot = NewCanvas,
                             !.tabs = Append(@, LineplotTab)],
                   currentText(num_cols))

\* init_log_tab whose entry is written once its body has run.
init_log_tab_logged_after(s0) ==
  LET log_view == Len(s0.logs) + 1
  IN [s0 EXCEPT !.logs = log(Append(@, <<>>), log_view,
                             LogPrefix \o "init_log_tab"),
                !.tabs = Append(@, LogTab),
                !.log_widget = log_view,
                !.calls = Append(@, [name |-> "init_log_tab",
                                     widget |-> s0.log_widget])]

\* The entry is written to the widget attached so far; the body then makes a
\* new text widget and attaches it.
init_log_tab(s0) ==
  LET s == wrapper(s0, "init_log_tab")
      log_view == Len(s.logs) + 1
  IN [s EXCEPT !.logs = Append(@, <<>>),
               !.tabs = Append(@, LogTab),
               !.log_widget = log_view]

\* QAbstractTableModel.index(row, column), which PandasModel inherits: an
\* index of the adapter for a cell it has, QModelIndex() otherwise.
index(F, m, self, row, column) ==
  LET rows == rowCount(F, self).ret
      columns == columnCount(F, self).ret
  IN IF /\ rows.t = "int" /\ columns.t = "int"
        /\ 0 <= row /\ row < rows.v /\ 0 <= column /\ column < columns.v
     THEN createIndex(m, row, column)
     ELSE InvalidIndex

\* ----------------------------------------------------- actions of AppSpec
\* DataApp.__init__ up to the first init_* call: LogMixin.__init__ has set
\* log_widget to None and the file is read into data_tables.
AppInit ==
  /\ frames = <<EmptyFrame>>
  /\ models = <<>>
  /\ ret = None
  /\ call = [op |-> "none"]
  /\ pc = "init_stat_tab"
  /\ data_tables \in {[n \in {TableName} |-> T] : T \in Tables}
  /\ tabs = <<>>
  /\ stat_table_select = <<>>
  /\ lineplot_column_select = <<>>
  /\ stat_model = 0
  /\ stat_table = 0
  /\ canvas = [corr |-> NoCanvas, heatmap |-> NoCanvas, lineplot |-> NoCanvas]
  /\ log_widget = 0
  /\ logs = <<>>
  /\ calls = <<>>

\* The order of the calls in DataApp.__init__.
NextPc(p) ==
  CASE p = "init_stat_tab" -> "init_corr_tab"
    [] p = "init_corr_tab" -> "init_heatmap_tab"
    [] p = "init_heatmap_tab" -> "init_lineplot_tab"
    [] p = "init_lineplot_tab" -> "init_log_tab"
    [] p = "init_log_tab" -> "ready"

\* The calls made since a log widget was attached.
Logged == {i \in DOMAIN calls : calls[i].widget # 0}

\* Method name may be called now: as the step of __init__ that is due, or on
\* the constructed window.
MayCall(name) ==
  \/ pc = name
  \/ pc = "ready" /\ Cardinality(Logged) < MaxCalls

\* The window is as the method left it. An exception leaving an init_* step
\* leaves __init__ too, and no window exists.
Becomes(s, c) ==
  /\ frames' = s.frames
  /\ models' = s.models
  /\ data_tables' = s.data_tables
  /\ tabs' = s.tabs
  /\ stat_table_select' = s.stat_table_select
  /\ lineplot_column_select' = s.lineplot_column_select
  /\ stat_model' = s.stat_model
  /\ stat_table' = s.stat_table
  /\ canvas' = s.canvas
  /\ log_widget' = s.log_widget
  /\ logs' = s.logs
  /\ calls' = s.calls
  /\ ret' = s.exc
  /\ call' = c
  /\ pc' = IF pc = "ready" THEN "ready"
           ELSE IF s.exc # None THEN "crashed" ELSE NextPc(pc)

InitStatTab ==
  /\ MayCall("init_stat_tab")
  /\ Becomes(init_stat_tab(Window), [op |-> "init_stat_tab"])

InitCorrTab ==
  /\ MayCall("init_corr_tab")
  /\ Becomes(init_corr_tab(Window), [op |-> "init_corr_tab"])

InitHeatmapTab ==
  /\ MayCall("init_heatmap_tab")
  /\ Becomes(init_heatmap_tab(Window), [op |-> "init_heatmap_tab"])

InitLineplotTab ==
  /\ MayCall("init_lineplot_tab")
  /\ Becomes(init_lineplot_tab(Window), [op |-> "init_lineplot_tab"])

InitLogTab ==
  /\ MayCall("init_log_tab")
  /\ Becomes(init_log_tab(Window), [op |-> "init_log_tab"])

UpdateStat(table_name) ==
  /\ pc = "ready"
  /\ MayCall("update_stat")
  /\ Becomes(update_stat(Window, table_name),
             [op |-> "update_stat", table_name |-> table_name])

PlotCorr ==
  /\ pc = "ready"
  /\ MayCall("plot_corr")
  /\ Becomes(plot_corr(Window), [op |-> "plot_corr"])

PlotHeatmap ==
  /\ pc = "ready"
  /\ MayCall("plot_heatmap")
  /\ Becomes(plot_heatmap(Window), [op |-> "plot_heatmap"])

PlotLineplot(column) ==
  /\ pc = "ready"
  /\ MayCall("plot_lineplot")
  /\ Becomes(plot_lineplot(Window, column),
             [op |-> "plot_lineplot", column |-> column])

\* The table view asks the adapter it shows.
ViewRowCount == pc = "ready" /\ RowCount(stat_table)

ViewColumnCount == pc = "ready" /\ ColumnCount(stat_table)

ViewData(row, column) ==
  /\ pc = "ready"
  /\ Data(stat_table,
          index(frames, stat_table, models[stat_table], row, column),
          DisplayRole)

ViewHeaderData(section, orientation) ==
  /\ pc = "ready"
  /\ HeaderData(stat_table, section, orientation, DisplayRole)

AppNext ==
  \/ InitStatTab
  \/ InitCorrTab
  \/ InitHeatmapTab
  \/ InitLineplotTab
  \/ InitLogTab
  \/ \E table_name \in TableNames : UpdateStat(table_name)
  \/ PlotCorr
  \/ PlotHeatmap
  \/ \E column \in ColumnNames : PlotLineplot(column)
  \/ ViewRowCount
  \/ ViewColumnCount
  \/ \E row \in 0..MaxIdx, column \in 0..MaxIdx : ViewData(row, column)
  \/ \E section \in 0..MaxIdx, orientation \in {Horizontal, Vertical} :
       ViewHeaderData(section, orientation)

AppSpec == AppInit /\ [][AppNext]_vars

\* ======================================================= properties of Spec
\* The snapshot adapter m holds, and whether it has cell (row, column).
Held(m) == frames[models[m].df]

HasCell(m, row, column) ==
  /\ Held(m).t = "DataFrame"
  /\ 0 <= row /\ row < Len(Held(m).index)
  /\ 0 <= column /\ column < Len(Held(m).columns)

\* Columns of unequal length.
IsRagged(df) == \E i, j \in DOMAIN df.cols : Len(df.cols[i]) # Len(df.cols[j])

\* The texts of the snapshots of Spec as written by hand from their values:
\* KnownText[f][row][column], KnownColumns[f][column], KnownIndex[f][row].
KnownText ==
  << <<>>,
     << <<"1", "2">>, <<"3", "4">> >>,
     << <<"-12", "3.5">>, <<"100", "nan">> >>,
     << <<"x", "-0.05">> >>,
     <<>> >>
KnownColumns ==
  << <<>>, <<"a", "b">>, <<"delta", "accel">>, <<"0", "1">>, <<"a", "b">> >>
KnownIndex ==
  << <<>>, <<"0", "1">>, <<"r1", "r2">>, <<"0">>, <<>> >>

\* C1: whatever the adapter holds, a cell query with the display role for a
\* row or column outside the table (negative, or at or past the count)
\* returns None and does not raise.
C1_OutOfRangeCellIsNoValue ==
  ( /\ call.op = "data"
    /\ call.role = DisplayRole
    /\ Held(call.self).t = "DataFrame"
    /\ ~HasCell(call.self, call.index.row, call.index.column) )
  => ret = None

\* C2: a header query with the display role returns None and does not raise
\* when the section is outside the chosen axis or the axis is neither rows
\* nor columns.
C2_OutOfRangeHeaderIsNoValue ==
  ( /\ call.op = "headerData"
    /\ call.role = DisplayRole
    /\ Held(call.self).t = "DataFrame"
    /\ \/ call.orientation \notin {Horizontal, Vertical}
       \/ call.section < 0
       \/ /\ call.orientation = Horizontal
          /\ call.section >= Len(Held(call.self).columns)
       \/ /\ call.orientation = Vertical
          /\ call.section >= Len(Held(call.self).index) )
  => ret = None

\* C3: for a row and column inside the table, the cell query with the display
\* role returns the text of the value stored there; for the snapshots built
\* from known values that is the text written by hand.
C3_CellText ==
  ( /\ call.op = "data"
    /\ call.role = DisplayRole
    /\ HasCell(call.self, call.index.row, call.index.column) )
  => LET df == Held(call.self)
         row == call.index.row + 1
         column == call.index.column + 1
     IN /\ ret = PyStr(str(df.cols[column][row]))
        /\ ret = PyStr(KnownText[models[call.self].df][row][column])

C3_Witness ==
  /\ call.op = "data"
  /\ call.role = DisplayRole
  /\ HasCell(call.self, call.index.row, call.index.column)
  /\ call.index.row # call.index.column
  /\ ret = PyStr("-0.05")

\* C5: constructing an adapter over columns of unequal length fails with a
\* "malformed dataset" error, and no adapter ever holds such a snapshot.
C5_RaggedRejected ==
  /\ \A m \in DOMAIN models : ~IsRagged(Held(m))
  /\ (call.op = "__init__" /\ IsRagged(frames[call.df]))
       => ret = Raise("malformed dataset")

\* C6: a query changes neither a snapshot nor which snapshot an adapter
\* holds, and asked again with nothing in between it returns the same.
C6_QueriesReadOnly ==
  [][ call'.op \in QueryOps
        => /\ frames' = frames
           /\ models' = models
           /\ (call' = call => ret' = ret) ]_vars

\* A cell was read through one of two adapters that hold the same snapshot
\* object.
C6_Witness ==
  /\ Len(models) = 2
  /\ models[1].df = models[2].df
  /\ call.op = "data"
  /\ call.self = 1
  /\ ret = PyStr("100")

\* C7: with the display role, the header query returns the name of column
\* section for the column axis and the label of row section for the row axis
\* (the position when the rows have no labels), for a section inside the axis.
C7_HeaderText ==
  ( /\ call.op = "headerData"
    /\ call.role = DisplayRole
    /\ Held(call.self).t = "DataFrame"
    /\ call.section >= 0 )
  => LET df == Held(call.self)
         f == models[call.self].df
         i == call.section + 1
     IN /\ (call.orientation = Horizontal /\ i <= Len(df.columns))
             => /\ ret = PyStr(str(df.columns[i]))
                /\ ret = PyStr(KnownColumns[f][i])
        /\ (call.orientation = Vertical /\ i <= Len(df.index))
             => /\ ret = PyStr(str(df.index[i]))
                /\ ret = PyStr(KnownIndex[f][i])
                /\ df.index = RangeIndex(Len(df.index))
                     => ret = PyStr(Dec(call.section))

C7_Witness ==
  /\ call.op = "headerData"
  /\ call.role = DisplayRole
  /\ call.orientation = Vertical
  /\ call.section = 1
  /\ ret = PyStr("r2")

\* C8: an adapter over an empty snapshot reports no rows and no columns, and
\* every cell query on it returns None.
C8_EmptyAdapter ==
  \A m \in DOMAIN models :
    Held(m) = EmptyFrame
      => /\ rowCount(frames, models[m]).ret = PyInt(0)
         /\ columnCount(frames, models[m]).ret = PyInt(0)
         /\ (call.op = "data" /\ call.self = m) => ret = None

\* ==================================================== properties of AppSpec
\* The snapshot of the latest replacement: the statistics frame made last.
LatestSnapshot == frames[Len(frames)]

C10_UnknownTable ==
  [][ (call'.op = "update_stat" /\ call'.table_name \notin DOMAIN data_tables)
        => /\ ret' = None
           /\ data_tables' = data_tables
           /\ stat_table' = stat_model'
           /\ LET S == frames'[models'[stat_table'].df]
              IN /\ S = get_statistics(data_tables, call'.table_name)
                 /\ S.columns = <<PyStr(ErrorColumn)>>
                 /\ S.cols = << <<PyStr(NotFoundText)>> >>
                 /\ Len(S.index) = 1
           /\ rowCount(frames', models'[stat_table']).ret = PyInt(1)
           /\ columnCount(frames', models'[stat_table']).ret = PyInt(1) ]_vars

C10_Witness ==
  /\ call.op = "update_stat"
  /\ call.table_name = ""
  /\ ret = None
  /\ Held(stat_table).cols = << <<PyStr(NotFoundText)>> >>

\* The log lines of a sequence of calls.
Entries(cs) ==
  IF cs = <<>> THEN <<>> ELSE [i \in DOMAIN cs |-> LogPrefix \o cs[i].name]

\* The decorated calls __init__ makes, in order.
ConstructionCalls ==
  <<"init_stat_tab", "init_corr_tab", "plot_corr", "init_heatmap_tab",
    "plot_heatmap", "init_lineplot_tab", "plot_lineplot", "init_log_tab">>

\* C9 as stated: the log shown is, in order, one entry per decorated call
\* made after a log widget was attached, and is empty right after
\* construction.
C9_LogHoldsEveryLoggedCall ==
  log_widget # 0
  => logs[log_widget] =
       Entries(SelectSeq(calls, LAMBDA c : c.widget # 0))

\* C9 amended: each text widget holds, in order, one entry per decorated call
\* made while it was the attached widget, the entry of an init_log_tab call
\* included, which goes to the widget attached before it and leaves the new
\* widget empty; the calls of __init__ leave no entry, so the log is empty
\* right after construction.
C9_LogPerWidget ==
  /\ \A w \in DOMAIN logs :
       logs[w] = Entries(SelectSeq(calls, LAMBDA c : c.widget = w))
  /\ log_widget = 0 => logs = <<>>
  /\ pc = "ready"
       => /\ log_widget # 0
          /\ Len(calls) >= Len(ConstructionCalls)
          /\ \A i \in DOMAIN ConstructionCalls :
               calls[i] = [name |-> ConstructionCalls[i], widget |-> 0]
          /\ Logged = {} => logs[log_widget] = <<>>

\* init_log_tab was called on the constructed window, after another call.
C9_Witness ==
  /\ pc = "ready"
  /\ log_widget = 2
  /\ logs[1] = <<LogPrefix \o "plot_lineplot", LogPrefix \o "init_log_tab">>
  /\ logs[2] = <<>>
  /\ call.op = "init_log_tab"

====
